---- MODULE Spec2Model ----
(***************************************************************************)
(* State-machine model of dexcom_readings.py: the script's start-up header *)
(* step, main()'s initialization, and the poll loop                        *)
(*   fetch -> decide -> (upload_to_nightscout) -> write_to_csv -> sleep.   *)
(*                                                                         *)
(* Python's None is the empty tuple and a present value x is <<x>>, so an  *)
(* optional value can always be compared with None.  Instants are small    *)
(* naturals.  The external collaborators (the Dexcom client, requests.post,*)
(* the file system) answer nondeterministically; every call made to them   *)
(* is appended to a call list, the way the test-suite's mocks record calls.*)
(***************************************************************************)
EXTENDS Integers, Sequences, FiniteSets, TLC

\* ------------------------------------------------------------- bounds
\* The number of loop iterations explored.
MaxTicks == 3
\* Reading timestamps range over 1..MaxTime.
MaxTime == 3

\* ---------------------------------------------------- program constants
POLLING_INTERVAL_SECONDS == 60

CSV_HEADERS ==
  << "check_timestamp_utc", "new_reading_received", "glucose_value_mgdl",
     "glucose_timestamp_utc", "trend_description", "trend_arrow" >>

\* ------------------------------------------------------ optional values
None == << >>

Some(x) == << x >>

\* Python truthiness of an optional setting (`not X` is true of None).
Truthy(o) == o # None

\* ------------------------------------------------------------- readings
\* The object the source returns: value, trend_description, trend_arrow and
\* datetime attributes.
GlucoseReading(value, trend_description, trend_arrow, dt) ==
  [ value |-> value, trend_description |-> trend_description,
    trend_arrow |-> trend_arrow, datetime |-> dt ]

Times == 1..MaxTime

\* The readings the source may return: two measurements at every instant.
Readings ==
  { GlucoseReading(120, "Rising Fast", "^^", t) : t \in Times } \cup
  { GlucoseReading(115, "Flat", "->", t) : t \in Times }

\* What one call of dexcom_client.get_current_glucose_reading() does: it
\* returns a reading, returns None, or raises.
SourceOutcomes ==
  { [kind |-> "reading", bg |-> r] : r \in Readings } \cup
  { [kind |-> "none"], [kind |-> "raise"] }

\* datetime.isoformat(): an injective rendering of an instant as text.
isoformat(dt) == "T" \o ToString(dt)

\* ------------------------------------------------- csv.writer rendering
\* csv.writer renders a bool with str(), None as the empty field, a number
\* with str() and a string as itself.
CsvBool(b) == IF b THEN "True" ELSE "False"

CsvOptInt(o) == IF o = None THEN "" ELSE ToString(o[1])

CsvOptStr(o) == IF o = None THEN "" ELSE o[1]

\* writer.writerow(data_row) for the six-field row main() builds.
CsvRow(data_row) ==
  << data_row[1], CsvBool(data_row[2]), CsvOptInt(data_row[3]),
     CsvOptStr(data_row[4]), CsvOptStr(data_row[5]), CsvOptStr(data_row[6]) >>

\* ------------------------------------------------------------ variables
VARIABLES
  DEXCOM_USERNAME, DEXCOM_PASSWORD,        \* source credentials (optional)
  NIGHTSCOUT_URL, NIGHTSCOUT_API_SECRET,   \* remote-sink settings (optional)
  csv_file_at_start,                       \* history: the log file when the process began
  pc,                                      \* position of the process
  exit_code,                               \* None, or Some(code) after exit()
  csv_file,                                \* the file at OUTPUT_CSV_FILE
  last_known_glucose_timestamp,            \* module global
  dexcom_client,                           \* main()'s local
  ticks,                                   \* loop iterations started
  check_timestamp_utc, new_reading_received, current_bg,
  glucose_value_to_log, glucose_timestamp_to_log,
  trend_description_to_log, trend_arrow_to_log,
  last_known_at_tick_start,                \* history: the global when the tick began
  fetch_calls, upload_calls, post_calls,   \* call lists of the collaborators
  write_calls, sleep_calls, log_calls

\* What is fixed for the whole run.
config == << DEXCOM_USERNAME, DEXCOM_PASSWORD, NIGHTSCOUT_URL,
             NIGHTSCOUT_API_SECRET, csv_file_at_start >>

locals == << check_timestamp_utc, new_reading_received, current_bg,
             glucose_value_to_log, glucose_timestamp_to_log,
             trend_description_to_log, trend_arrow_to_log >>

calls == << fetch_calls, upload_calls, post_calls, write_calls, sleep_calls,
            log_calls >>

vars == << config, pc, exit_code, csv_file, last_known_glucose_timestamp,
           dexcom_client, ticks, locals, last_known_at_tick_start, calls >>

\* The logging.<level>(...) calls `entries` (<<level, message>> pairs) made
\* during tick t (0 before the loop), appended to the log of calls.
LogAt(t, entries) ==
  log_calls \o [ i \in 1..Len(entries) |->
                   [tick |-> t, level |-> entries[i][1], what |-> entries[i][2]] ]

\* ----------------------------------------------------------------- Init
\* The settings are read from the environment once; the log file is absent
\* or is a log that holds its header row.  The process runs the script
\* (pc = "start") or, as an importer of the module does, calls main()
\* directly (pc = "init").
Init ==
  /\ DEXCOM_USERNAME \in {None, Some("testuser")}
  /\ DEXCOM_PASSWORD \in {None, Some("testpassword")}
  /\ NIGHTSCOUT_URL \in {None, Some("http://ns")}
  /\ NIGHTSCOUT_API_SECRET \in {None, Some("secret")}
  /\ pc \in {"start", "init"}
  /\ exit_code = None
  /\ csv_file \in { [exists |-> FALSE, rows |-> << >>],
                    [exists |-> TRUE, rows |-> << CSV_HEADERS >>] }
  /\ csv_file_at_start = csv_file
  /\ last_known_glucose_timestamp = None
  /\ dexcom_client = None
  /\ ticks = 0
  /\ check_timestamp_utc = 0
  /\ new_reading_received = FALSE
  /\ current_bg = None
  /\ glucose_value_to_log = None
  /\ glucose_timestamp_to_log = None
  /\ trend_description_to_log = None
  /\ trend_arrow_to_log = None
  /\ last_known_at_tick_start = None
  /\ fetch_calls = << >>
  /\ upload_calls = << >>
  /\ post_calls = << >>
  /\ write_calls = << >>
  /\ sleep_calls = << >>
  /\ log_calls = << >>

\* ------------------------------------------------------- pure functions
\* initialize_dexcom_client(): `ctor` is what the Dexcom(...) constructor
\* does when it is called ("ok" or "raise").  The result names the client
\* returned, the number of constructor calls and of exit() calls made, and
\* the messages logged.
initialize_dexcom_client(username, password, ctor) ==
  IF ~Truthy(username) \/ ~Truthy(password)
  THEN [ client |-> None, ctor_calls |-> 0, exit_calls |-> << >>,
         logged |-> << <<"error", "credentials must be set">> >> ]
  ELSE IF ctor = "ok"
  THEN [ client |-> Some("dexcom_client"), ctor_calls |-> 1,
         exit_calls |-> << >>,
         logged |-> << <<"info", "connecting">>, <<"info", "connected">> >> ]
  ELSE [ client |-> None, ctor_calls |-> 1, exit_calls |-> << >>,
         logged |-> << <<"info", "connecting">>,
                       <<"error", "error initializing client">> >> ]

\* Mutant: a fetch that raised is attempted a second time before giving up.
get_latest_glucose_reading_RetriesOnce(client, src) ==
  IF ~Truthy(client)
  THEN [ bg |-> None, source_calls |-> 0, logged |-> << >> ]
  ELSE IF src.kind = "reading"
  THEN [ bg |-> Some(src.bg), source_calls |-> 1, logged |-> << >> ]
  ELSE IF src.kind = "none"
  THEN [ bg |-> None, source_calls |-> 1, logged |-> << >> ]
  ELSE [ bg |-> None, source_calls |-> 2,
         logged |-> << <<"error", "error fetching glucose reading">> >> ]

\* get_latest_glucose_reading(dexcom_client): `src` is what the source does
\* when it is called.  The result names the value returned, the number of
\* calls made to the source and the messages logged.
get_latest_glucose_reading(client, src) ==
  IF ~Truthy(client)
  THEN [ bg |-> None, source_calls |-> 0, logged |-> << >> ]
  ELSE IF src.kind = "reading"
  THEN [ bg |-> Some(src.bg), source_calls |-> 1, logged |-> << >> ]
  ELSE IF src.kind = "none"
  THEN [ bg |-> None, source_calls |-> 1, logged |-> << >> ]
  ELSE [ bg |-> None, source_calls |-> 1,
         logged |-> << <<"error", "error fetching glucose reading">> >> ]

\* Mutant: the comparison written >= instead of >.
IsNewReading_GE(dt, last_known) ==
  last_known = None \/ dt >= last_known[1]

\* Mutant: the comparison written != instead of >.
IsNewReading_NE(dt, last_known) ==
  last_known = None \/ dt # last_known[1]

\* The acceptance test of main(): the reading at instant dt is new.
IsNewReading(dt, last_known) ==
  last_known = None \/ dt > last_known[1]

\* Mutant: the header written by every call, whether the file exists or not.
write_to_csv_AlwaysHeader(f, data_row, io) ==
  CASE io = "ok" ->
         [exists |-> TRUE,
          rows |-> f.rows \o << CSV_HEADERS >> \o << CsvRow(data_row) >>]
    [] io = "open_error" -> f
    [] io = "header_error" -> [exists |-> TRUE, rows |-> f.rows]
    [] OTHER -> [exists |-> TRUE, rows |-> f.rows \o << CSV_HEADERS >>]

\* Mutant: the file opened with mode 'w' instead of 'a'.
write_to_csv_Truncates(f, data_row, io) ==
  LET header == IF f.exists THEN << >> ELSE << CSV_HEADERS >>
  IN  CASE io = "ok" ->
             [exists |-> TRUE, rows |-> header \o << CsvRow(data_row) >>]
        [] io = "open_error" -> f
        [] OTHER -> [exists |-> TRUE, rows |-> << >>]

\* write_to_csv(data_row) on file f.  `io` is what the file system does:
\* "ok"; "open_error" (open() raises: the file is as it was);
\* "header_error" (the file is opened, so it exists, and nothing reaches
\* it); "row_error" (a header due reaches the file, the data row does not).
\* The result is the file afterwards; any outcome but "ok" raises.
write_to_csv(f, data_row, io) ==
  LET file_exists == f.exists
      header == IF file_exists THEN << >> ELSE << CSV_HEADERS >>
  IN  CASE io = "ok" ->
             [exists |-> TRUE, rows |-> f.rows \o header \o << CsvRow(data_row) >>]
        [] io = "open_error" -> f
        [] io = "header_error" -> [exists |-> TRUE, rows |-> f.rows]
        [] OTHER -> [exists |-> TRUE, rows |-> f.rows \o header]

IoOutcomes == {"ok", "open_error", "header_error", "row_error"}

\* The remote sink is configured.
NightscoutConfigured == Truthy(NIGHTSCOUT_URL) /\ Truthy(NIGHTSCOUT_API_SECRET)

\* The entry upload_to_nightscout builds for the remote sink.
NightscoutEntry(value, timestamp_utc, trend_arrow) ==
  [ dateString |-> isoformat(timestamp_utc), sgv |-> value,
    direction |-> trend_arrow, type |-> "sgv" ]

\* What requests.post + raise_for_status do: a 2xx response, a response
\* with a bad status, or a transport failure.
PostOutcomes == {"2xx", "bad_status", "transport_error"}

\* Mutant: a failed POST is attempted a second time.
upload_to_nightscout_RetriesOnce(value, timestamp_utc, trend_arrow, net) ==
  LET post == [ json |-> << NightscoutEntry(value, timestamp_utc, trend_arrow) >>,
                outcome |-> net ]
  IN  IF ~Truthy(NIGHTSCOUT_URL) \/ ~Truthy(NIGHTSCOUT_API_SECRET)
      THEN [ posts |-> << >>, logged |-> << >>, raises |-> FALSE ]
      ELSE [ posts |-> IF net = "2xx" THEN << post >> ELSE << post, post >>,
             logged |-> << <<"info", "uploading">> >>,
             raises |-> FALSE ]

\* Mutant: the guard written with `and`, so the POST is skipped only when
\* both settings are absent.
upload_to_nightscout_AndGuard(value, timestamp_utc, trend_arrow, net) ==
  IF ~Truthy(NIGHTSCOUT_URL) /\ ~Truthy(NIGHTSCOUT_API_SECRET)
  THEN [ posts |-> << >>, logged |-> << >>, raises |-> FALSE ]
  ELSE [ posts |-> << [ json |-> << NightscoutEntry(value, timestamp_utc,
                                                    trend_arrow) >>,
                        outcome |-> net ] >>,
         logged |-> << <<"info", "uploading">> >>,
         raises |-> FALSE ]

\* Mutant: a failed POST is not caught and leaves the function.
upload_to_nightscout_Propagates(value, timestamp_utc, trend_arrow, net) ==
  IF ~Truthy(NIGHTSCOUT_URL) \/ ~Truthy(NIGHTSCOUT_API_SECRET)
  THEN [ posts |-> << >>, logged |-> << >>, raises |-> FALSE ]
  ELSE [ posts |-> << [ json |-> << NightscoutEntry(value, timestamp_utc,
                                                    trend_arrow) >>,
                        outcome |-> net ] >>,
         logged |-> << <<"info", "uploading">> >>,
         raises |-> net # "2xx" ]

\* upload_to_nightscout(value, timestamp_utc, trend_arrow): `net` is what
\* the POST does if one is made.  Without the sink's settings it returns at
\* once; else it makes one POST of a one-element batch and logs a failure,
\* which both except clauses swallow.  The result names the POSTs made, the
\* messages logged and whether an exception leaves the function.
upload_to_nightscout(value, timestamp_utc, trend_arrow, net) ==
  IF ~Truthy(NIGHTSCOUT_URL) \/ ~Truthy(NIGHTSCOUT_API_SECRET)
  THEN [ posts |-> << >>, logged |-> << >>, raises |-> FALSE ]
  ELSE [ posts |-> << [ json |-> << NightscoutEntry(value, timestamp_utc,
                                                    trend_arrow) >>,
                        outcome |-> net ] >>,
         logged |-> << <<"info", "uploading">>,
                       IF net = "2xx"
                       THEN <<"info", "uploaded">>
                       ELSE <<"error", "error uploading">> >>,
         raises |-> FALSE ]

\* Mutant: the trend description passed where the trend arrow belongs.
UploadArgs_Description ==
  [ value |-> glucose_value_to_log[1],
    timestamp_utc |-> current_bg[1].datetime,
    trend_arrow |-> trend_description_to_log[1] ]

\* The arguments main() passes to upload_to_nightscout.
UploadArgs ==
  [ value |-> glucose_value_to_log[1],
    timestamp_utc |-> current_bg[1].datetime,
    trend_arrow |-> trend_arrow_to_log[1] ]

\* Mutant: the two trend fields of the row in each other's place.
LogRow_SwapsTrend ==
  << isoformat(check_timestamp_utc), new_reading_received,
     glucose_value_to_log, glucose_timestamp_to_log,
     trend_arrow_to_log, trend_description_to_log >>

\* Mutant: a tick whose POST failed logs the reading as not new.
LogRow_AfterFailedForward ==
  IF \E i \in 1..Len(post_calls) :
       post_calls[i].tick = ticks /\ post_calls[i].outcome # "2xx"
  THEN << isoformat(check_timestamp_utc), FALSE, None, None, None, None >>
  ELSE << isoformat(check_timestamp_utc), new_reading_received,
          glucose_value_to_log, glucose_timestamp_to_log,
          trend_description_to_log, trend_arrow_to_log >>

\* The log_row main() builds at the end of a tick.
LogRow ==
  << isoformat(check_timestamp_utc), new_reading_received,
     glucose_value_to_log, glucose_timestamp_to_log,
     trend_description_to_log, trend_arrow_to_log >>

\* -------------------------------------------------------------- actions
\* The script's start-up step: create the log with its header when the
\* file is absent, then call main().  A failing open()/write raises out of
\* the script.
ScriptStart ==
  /\ pc = "start"
  /\ IF csv_file.exists
     THEN /\ pc' = "init"
          /\ UNCHANGED csv_file
     ELSE \E io \in {"ok", "open_error", "header_error"} :
            /\ csv_file' =
                 CASE io = "ok" -> [exists |-> TRUE, rows |-> << CSV_HEADERS >>]
                   [] io = "open_error" -> csv_file
                   [] OTHER -> [exists |-> TRUE, rows |-> << >>]
            /\ pc' = IF io = "ok" THEN "init" ELSE "crashed"
  /\ UNCHANGED << config, exit_code, last_known_glucose_timestamp,
                  dexcom_client, ticks, locals, last_known_at_tick_start,
                  calls >>

\* Mutant: main() goes on into the loop without a client.
InitializeClient_NoExit ==
  /\ pc = "init"
  /\ \E ctor \in {"ok", "raise"} :
       LET r == initialize_dexcom_client(DEXCOM_USERNAME, DEXCOM_PASSWORD, ctor)
       IN  /\ dexcom_client' = r.client
           /\ log_calls' = LogAt(0, r.logged \o << <<"info", "polling">> >>)
           /\ exit_code' = exit_code
           /\ pc' = "loop"
  /\ UNCHANGED << config, csv_file, last_known_glucose_timestamp, ticks,
                  locals, last_known_at_tick_start, fetch_calls,
                  upload_calls, post_calls, write_calls, sleep_calls >>

\* main() up to the loop: initialize the client; exit(1) without it.
InitializeClient ==
  /\ pc = "init"
  /\ \E ctor \in {"ok", "raise"} :
       LET r == initialize_dexcom_client(DEXCOM_USERNAME, DEXCOM_PASSWORD, ctor)
           sink == IF NightscoutConfigured
                   THEN << <<"info", "nightscout upload enabled">> >>
                   ELSE << <<"warning", "nightscout upload will be skipped">> >>
       IN  /\ dexcom_client' = r.client
           /\ IF ~Truthy(r.client)
              THEN /\ log_calls' =
                        LogAt(0, r.logged \o
                                 << <<"error", "exiting: initialization failure">> >>)
                   /\ exit_code' = Some(1)
                   /\ pc' = "exited"
              ELSE /\ log_calls' =
                        LogAt(0, r.logged \o sink \o << <<"info", "polling">> >>)
                   /\ exit_code' = exit_code
                   /\ pc' = "loop"
  /\ UNCHANGED << config, csv_file, last_known_glucose_timestamp, ticks,
                  locals, last_known_at_tick_start, fetch_calls,
                  upload_calls, post_calls, write_calls, sleep_calls >>

\* The top of the loop body: take the check time, reset the tick's locals
\* and fetch.
Fetch ==
  /\ pc = "loop"
  /\ ticks < MaxTicks
  /\ ticks' = ticks + 1
  /\ check_timestamp_utc' = ticks + 1
  /\ new_reading_received' = FALSE
  /\ \E src \in SourceOutcomes :
       LET r == get_latest_glucose_reading(dexcom_client, src)
       IN  /\ current_bg' = r.bg
           /\ fetch_calls' =
                Append(fetch_calls, [tick |-> ticks + 1, result |-> r.bg,
                                     source_calls |-> r.source_calls])
           /\ log_calls' = LogAt(ticks + 1, r.logged)
  /\ glucose_value_to_log' = None
  /\ glucose_timestamp_to_log' = None
  /\ trend_description_to_log' = None
  /\ trend_arrow_to_log' = None
  /\ last_known_at_tick_start' = last_known_glucose_timestamp
  /\ pc' = "decide"
  /\ UNCHANGED << config, exit_code, csv_file, last_known_glucose_timestamp,
                  dexcom_client, upload_calls, post_calls, write_calls,
                  sleep_calls >>

\* The accepting branch: the reading becomes the last known one and its
\* fields become the tick's fields to log.
AcceptReading ==
  LET current_glucose_datetime == current_bg[1].datetime
  IN  /\ new_reading_received' = TRUE
      /\ last_known_glucose_timestamp' = Some(current_glucose_datetime)
      /\ glucose_value_to_log' = Some(current_bg[1].value)
      /\ glucose_timestamp_to_log' = Some(isoformat(current_glucose_datetime))
      /\ trend_description_to_log' = Some(current_bg[1].trend_description)
      /\ trend_arrow_to_log' = Some(current_bg[1].trend_arrow)
      /\ log_calls' = LogAt(ticks, << <<"info", "new reading">> >>)
      /\ pc' = "forward"

\* Mutant: the assignment of the last known timestamp made for every
\* fetched reading, outside the test for a new one.
RejectReading_UpdatesState ==
  /\ log_calls' = LogAt(ticks, << <<"info", "no new reading">> >>)
  /\ pc' = "record"
  /\ last_known_glucose_timestamp' = Some(current_bg[1].datetime)
  /\ UNCHANGED << new_reading_received, glucose_value_to_log,
                  glucose_timestamp_to_log, trend_description_to_log,
                  trend_arrow_to_log >>

\* The rejecting branch: only the "no new reading" notice.
RejectReading ==
  /\ log_calls' = LogAt(ticks, << <<"info", "no new reading">> >>)
  /\ pc' = "record"
  /\ UNCHANGED << new_reading_received, last_known_glucose_timestamp,
                  glucose_value_to_log, glucose_timestamp_to_log,
                  trend_description_to_log, trend_arrow_to_log >>

\* Mutant: a fetch that returned nothing forgets the last known timestamp.
NoReading_ResetsState ==
  /\ log_calls' =
       LogAt(ticks, << <<"warning", "could not retrieve glucose reading">> >>)
  /\ pc' = "record"
  /\ last_known_glucose_timestamp' = None
  /\ UNCHANGED << new_reading_received, glucose_value_to_log,
                  glucose_timestamp_to_log, trend_description_to_log,
                  trend_arrow_to_log >>

\* The branch of a fetch that returned nothing: only the warning.
NoReading ==
  /\ log_calls' =
       LogAt(ticks, << <<"warning", "could not retrieve glucose reading">> >>)
  /\ pc' = "record"
  /\ UNCHANGED << new_reading_received, last_known_glucose_timestamp,
                  glucose_value_to_log, glucose_timestamp_to_log,
                  trend_description_to_log, trend_arrow_to_log >>

\* The branch on the fetched reading: accept it as new, reject it, or note
\* that none was retrieved.
Decide ==
  /\ pc = "decide"
  /\ IF Truthy(current_bg)
     THEN IF IsNewReading(current_bg[1].datetime, last_known_glucose_timestamp)
          THEN AcceptReading
          ELSE RejectReading
     ELSE NoReading
  /\ UNCHANGED << config, exit_code, csv_file, dexcom_client, ticks,
                  check_timestamp_utc, current_bg, last_known_at_tick_start,
                  fetch_calls, upload_calls, post_calls, write_calls,
                  sleep_calls >>

\* The call of upload_to_nightscout in the accepting branch.  An exception
\* leaving upload_to_nightscout would leave main() too.
Forward ==
  /\ pc = "forward"
  /\ LET a == UploadArgs
     IN  /\ upload_calls' =
              Append(upload_calls,
                     [tick |-> ticks, value |-> a.value,
                      timestamp_utc |-> a.timestamp_utc,
                      trend_arrow |-> a.trend_arrow])
         /\ \E net \in PostOutcomes :
              LET r == upload_to_nightscout(a.value, a.timestamp_utc,
                                            a.trend_arrow, net)
              IN  /\ post_calls' =
                       post_calls \o
                       [ i \in 1..Len(r.posts) |->
                           [tick |-> ticks, json |-> r.posts[i].json,
                            outcome |-> r.posts[i].outcome] ]
                  /\ log_calls' = LogAt(ticks, r.logged)
                  /\ pc' = IF r.raises THEN "crashed" ELSE "record"
  /\ UNCHANGED << config, exit_code, csv_file, last_known_glucose_timestamp,
                  dexcom_client, ticks, locals, last_known_at_tick_start,
                  fetch_calls, write_calls, sleep_calls >>

\* Mutant: write_to_csv called only for a new reading.
Record_OnlyWhenNew ==
  /\ pc = "record"
  /\ IF new_reading_received
     THEN \E io \in IoOutcomes :
            /\ write_calls' =
                 Append(write_calls,
                        [tick |-> ticks, data_row |-> LogRow, outcome |-> io])
            /\ csv_file' = write_to_csv(csv_file, LogRow, io)
            /\ pc' = IF io = "ok" THEN "sleep" ELSE "crashed"
     ELSE /\ pc' = "sleep"
          /\ UNCHANGED << write_calls, csv_file >>
  /\ UNCHANGED << config, exit_code, last_known_glucose_timestamp,
                  dexcom_client, ticks, locals, last_known_at_tick_start,
                  fetch_calls, upload_calls, post_calls, sleep_calls,
                  log_calls >>

\* Build log_row and call write_to_csv.  Nothing in main() catches what
\* write_to_csv raises: the exception leaves main() and ends the process.
Record ==
  /\ pc = "record"
  /\ \E io \in IoOutcomes :
       /\ write_calls' =
            Append(write_calls,
                   [tick |-> ticks, data_row |-> LogRow, outcome |-> io])
       /\ csv_file' = write_to_csv(csv_file, LogRow, io)
       /\ pc' = IF io = "ok" THEN "sleep" ELSE "crashed"
  /\ UNCHANGED << config, exit_code, last_known_glucose_timestamp,
                  dexcom_client, ticks, locals, last_known_at_tick_start,
                  fetch_calls, upload_calls, post_calls, sleep_calls,
                  log_calls >>

\* time.sleep(POLLING_INTERVAL_SECONDS), then the next iteration.
Sleep ==
  /\ pc = "sleep"
  /\ sleep_calls' =
       Append(sleep_calls, [tick |-> ticks, seconds |-> POLLING_INTERVAL_SECONDS])
  /\ pc' = "loop"
  /\ UNCHANGED << config, exit_code, csv_file, last_known_glucose_timestamp,
                  dexcom_client, ticks, locals, last_known_at_tick_start,
                  fetch_calls, upload_calls, post_calls, write_calls,
                  log_calls >>

Next ==
  \/ ScriptStart
  \/ InitializeClient
  \/ Fetch
  \/ Decide
  \/ Forward
  \/ Record
  \/ Sleep

Spec == Init /\ [][Next]_vars

\* ----------------------------------------------------- reading the history
\* The calls of a call list made during tick t.
CallsIn(call_list, t) == SelectSeq(call_list, LAMBDA c : c.tick = t)

\* What the fetch of tick t returned (None or Some(reading)).
FetchedAt(t) == fetch_calls[t].result

\* Tick t has taken its decision and it was "accepted": for the running
\* tick this is new_reading_received once the branch is taken, for an
\* earlier tick the flag handed to write_to_csv.
AcceptedAt(t) ==
  IF t = ticks
  THEN pc # "decide" /\ new_reading_received
  ELSE \E i \in 1..Len(write_calls) :
         write_calls[i].tick = t /\ write_calls[i].data_row[2]

\* The data rows of the log file, in file order.
DataRows == SelectSeq(csv_file.rows, LAMBDA r : r # CSV_HEADERS)

\* The running tick has finished its record step.
TickRecorded == ticks >= 1 /\ pc \in {"sleep", "loop"}

\* ----------------------------------------------------------------- claims

\* C1: in every tick whose fetch returned a reading, the reading is accepted
\* (new_reading_received = true) if and only if the last known timestamp the
\* tick started with is None or the reading's timestamp is strictly greater
\* than it; an equal or earlier timestamp is rejected.
C1_AcceptIffNoneOrStrictlyLater ==
  (ticks >= 1 /\ pc # "decide" /\ current_bg # None) =>
    ( new_reading_received <=>
        ( last_known_at_tick_start = None
          \/ current_bg[1].datetime > last_known_at_tick_start[1] ) )

\* C1 witness: a reading whose timestamp equals the last known one has been
\* rejected.
C1_Witness_EqualTimestampRejected ==
  /\ pc = "record"
  /\ current_bg # None
  /\ last_known_at_tick_start = Some(current_bg[1].datetime)
  /\ ~new_reading_received

\* C2: over any sequence of ticks and fetch results, once a reading with
\* timestamp T was accepted no later tick that fetches timestamp T or an
\* earlier one is accepted or calls the Forwarder, and a tick that fetches a
\* timestamp strictly greater than the last accepted one (or any timestamp
\* when none was accepted yet) is accepted.
C2_EachTimestampAcceptedAtMostOnce ==
  /\ \A i, j \in 1..ticks :
       ( /\ i < j
         /\ AcceptedAt(i)
         /\ FetchedAt(j) # None
         /\ FetchedAt(j)[1].datetime <= FetchedAt(i)[1].datetime )
       => ( ~AcceptedAt(j) /\ CallsIn(upload_calls, j) = << >> )
  /\ \A j \in 1..ticks :
       LET earlier == { i \in 1..(j - 1) : AcceptedAt(i) }
           last == CHOOSE i \in earlier : \A k \in earlier : k <= i
       IN  ( /\ j < ticks \/ pc # "decide"
             /\ FetchedAt(j) # None
             /\ \/ earlier = {}
                \/ FetchedAt(j)[1].datetime > FetchedAt(last)[1].datetime )
           => AcceptedAt(j)

\* C2 witness: a reading was accepted, the same timestamp fetched again was
\* rejected, and a later timestamp was then accepted.
C2_Witness_RepeatRejectedThenLaterAccepted ==
  /\ pc = "sleep"
  /\ ticks = 3
  /\ AcceptedAt(1)
  /\ FetchedAt(2) # None
  /\ FetchedAt(2)[1].datetime = FetchedAt(1)[1].datetime
  /\ ~AcceptedAt(2)
  /\ AcceptedAt(3)

\* C3: in every step last_known_glucose_timestamp is unchanged or becomes a
\* timestamp strictly greater than the one it held; it never decreases and,
\* once it holds a timestamp, never returns to None.
C3_LastKnownNeverDecreases ==
  [][ \/ last_known_glucose_timestamp' = last_known_glucose_timestamp
      \/ /\ last_known_glucose_timestamp' # None
         /\ \/ last_known_glucose_timestamp = None
            \/ last_known_glucose_timestamp'[1] > last_known_glucose_timestamp[1]
    ]_vars

\* C3 witness: the last known timestamp has advanced from a timestamp it
\* held to a later one.
C3_Witness_AdvancedFromHeldTimestamp ==
  /\ last_known_at_tick_start # None
  /\ last_known_glucose_timestamp # None
  /\ last_known_glucose_timestamp[1] > last_known_at_tick_start[1]

\* C4: last_known_glucose_timestamp is changed only by an acceptance: the
\* step that accepts a reading sets it to exactly that reading's timestamp,
\* and every other step (a rejection, a failed fetch, fetch, forward, record,
\* sleep) leaves it unchanged.
C4_StateChangedOnlyByAcceptance ==
  [][ IF pc = "decide" /\ new_reading_received'
      THEN last_known_glucose_timestamp' = Some(current_bg[1].datetime)
      ELSE last_known_glucose_timestamp' = last_known_glucose_timestamp
    ]_vars

\* C4 witness: a tick that rejected an earlier reading has run to its sleep
\* with the last known timestamp still the later one.
C4_Witness_RejectedTickKeptState ==
  /\ pc = "sleep"
  /\ current_bg # None
  /\ ~new_reading_received
  /\ last_known_glucose_timestamp # None
  /\ last_known_glucose_timestamp[1] > current_bg[1].datetime

\* C5: every tick makes exactly one call of write_to_csv, made at its record
\* step, and a tick that has recorded has appended exactly one data row,
\* its own: the log holds one data row per tick, in tick order, whatever
\* the fetch, the decision and the forward gave.
C5_OneLogRecordPerTick ==
  /\ \A t \in 1..ticks :
       Len(CallsIn(write_calls, t)) =
         IF t < ticks \/ pc \in {"sleep", "loop", "crashed"} THEN 1 ELSE 0
  /\ Len(DataRows) =
       IF ticks = 0 \/ pc \in {"sleep", "loop"} THEN ticks ELSE ticks - 1
  /\ \A t \in 1..Len(DataRows) : DataRows[t][1] = isoformat(t)

\* C5 witness: three ticks have recorded: a failed fetch, an acceptance
\* whose POST failed, and a rejection.
C5_Witness_ThreeOutcomesThreeRows ==
  /\ pc = "sleep"
  /\ ticks = 3
  /\ FetchedAt(1) = None
  /\ AcceptedAt(2)
  /\ \E i \in 1..Len(post_calls) :
       post_calls[i].tick = 2 /\ post_calls[i].outcome # "2xx"
  /\ FetchedAt(3) # None
  /\ ~AcceptedAt(3)
  /\ Len(DataRows) = 3

\* C6: upload_to_nightscout is called in a tick if and only if the tick
\* accepted its reading: never in a tick whose fetch failed or whose reading
\* was rejected, and exactly once, with the accepted reading's value,
\* timestamp and trend arrow, in a tick that accepted (the call is due once
\* the tick has passed its forward step).
C6_ForwarderInvokedIffAccepted ==
  \A t \in 1..ticks :
    CallsIn(upload_calls, t) =
      IF AcceptedAt(t) /\ (t < ticks \/ pc # "forward")
      THEN << [ tick |-> t,
                value |-> FetchedAt(t)[1].value,
                timestamp_utc |-> FetchedAt(t)[1].datetime,
                trend_arrow |-> FetchedAt(t)[1].trend_arrow ] >>
      ELSE << >>

\* C6 witness: the first tick did not accept and made no call, the second
\* accepted and has made its one call.
C6_Witness_SecondTickForwarded ==
  /\ pc = "record"
  /\ ticks = 2
  /\ ~AcceptedAt(1)
  /\ new_reading_received
  /\ Len(upload_calls) = 1
  /\ upload_calls[1].tick = 2

\* C7: when write_to_csv fails with an I/O failure in some tick, the loop is
\* not stopped: the process is still in the loop (the tick goes on to its
\* sleep and the next tick fetches).
C7_WriteFailureDoesNotStopLoop ==
  \A i \in 1..Len(write_calls) :
    write_calls[i].outcome # "ok" =>
      pc \in {"loop", "decide", "forward", "record", "sleep"}

\* C8: when the sink is configured and the POST fails (bad status or
\* transport failure), upload_to_nightscout returns to main(): the tick goes
\* on to its one call of write_to_csv with its is_new = true row (if the
\* process ends in that tick, it ends in write_to_csv), a tick that has
\* recorded holds that row in the log and sleeps once, and the entry is
\* POSTed once only, in that tick and in no other.
C8_FailedPostReturnsToMain ==
  \A i \in 1..Len(post_calls) :
    LET c == post_calls[i]
        w == CallsIn(write_calls, c.tick)
    IN  c.outcome # "2xx" =>
          /\ c.tick = ticks => pc \in {"record", "sleep", "loop", "crashed"}
          /\ (c.tick = ticks /\ pc = "crashed") => Len(w) = 1
          /\ Len(w) = 1 => w[1].data_row[2]
          /\ (c.tick < ticks \/ pc \in {"sleep", "loop"}) =>
               /\ Len(w) = 1
               /\ w[1].outcome = "ok"
               /\ DataRows[c.tick] = CsvRow(w[1].data_row)
               /\ DataRows[c.tick][2] = "True"
          /\ Len(CallsIn(sleep_calls, c.tick)) =
               IF c.tick < ticks \/ pc = "loop" THEN 1 ELSE 0
          /\ \A j \in 1..Len(post_calls) : j # i => post_calls[j].json # c.json

\* C8 witness: two ticks whose POSTs failed, one with a bad status and one
\* with a transport failure, have both recorded.
C8_Witness_TwoFailedPostsRecorded ==
  /\ pc = "sleep"
  /\ ticks = 2
  /\ Len(post_calls) = 2
  /\ post_calls[1].outcome = "bad_status"
  /\ post_calls[2].outcome = "transport_error"

\* C9: the forward's outcome does not influence the tick's other outputs:
\* the row handed to write_to_csv, the row in the log and the resulting
\* last_known_glucose_timestamp of a recorded tick are determined by the
\* last known timestamp the tick started with, the fetched reading and the
\* check time alone, so they are the same whether the forward succeeded,
\* was skipped or failed.
C9_OutputsDeterminedWithoutForwardOutcome ==
  TickRecorded =>
    LET accepted ==
          /\ current_bg # None
          /\ \/ last_known_at_tick_start = None
             \/ current_bg[1].datetime > last_known_at_tick_start[1]
        row ==
          IF accepted
          THEN << isoformat(check_timestamp_utc), TRUE,
                  Some(current_bg[1].value),
                  Some(isoformat(current_bg[1].datetime)),
                  Some(current_bg[1].trend_description),
                  Some(current_bg[1].trend_arrow) >>
          ELSE << isoformat(check_timestamp_utc), FALSE, None, None, None, None >>
        w == CallsIn(write_calls, ticks)
    IN  /\ Len(w) = 1
        /\ w[1].data_row = row
        /\ csv_file.rows[Len(csv_file.rows)] =
             << row[1], IF row[2] THEN "True" ELSE "False",
                IF accepted THEN ToString(current_bg[1].value) ELSE "",
                IF accepted THEN row[4][1] ELSE "",
                IF accepted THEN row[5][1] ELSE "",
                IF accepted THEN row[6][1] ELSE "" >>
        /\ last_known_glucose_timestamp =
             IF accepted THEN Some(current_bg[1].datetime)
             ELSE last_known_at_tick_start

\* C9 witness: a tick whose POST succeeded and a tick whose POST failed have
\* both recorded.
C9_Witness_SucceededAndFailedForward ==
  /\ pc = "sleep"
  /\ ticks = 2
  /\ Len(post_calls) = 2
  /\ post_calls[1].outcome = "2xx"
  /\ post_calls[2].outcome = "transport_error"

\* C10: at the end of every tick (the tick has recorded), every reading
\* accepted so far, and so every reading handed to the Forwarder, has an
\* is_new = true row with its value and timestamp in the log file, whatever
\* the forwards gave.
C10_AcceptedReadingsAreInLog ==
  TickRecorded =>
    /\ \A t \in 1..ticks :
         AcceptedAt(t) =>
           \E k \in 1..Len(csv_file.rows) :
             /\ csv_file.rows[k][2] = "True"
             /\ csv_file.rows[k][3] = ToString(FetchedAt(t)[1].value)
             /\ csv_file.rows[k][4] = isoformat(FetchedAt(t)[1].datetime)
    /\ \A i \in 1..Len(upload_calls) :
         \E k \in 1..Len(csv_file.rows) :
           /\ csv_file.rows[k][1] = isoformat(upload_calls[i].tick)
           /\ csv_file.rows[k][2] = "True"
           /\ csv_file.rows[k][3] = ToString(upload_calls[i].value)
           /\ csv_file.rows[k][4] = isoformat(upload_calls[i].timestamp_utc)

\* C10 witness: three readings were accepted, every POST failed, and the
\* third tick has recorded.
C10_Witness_ThreeAcceptedAllForwardsFailed ==
  /\ pc = "sleep"
  /\ ticks = 3
  /\ \A t \in 1..3 : AcceptedAt(t)
  /\ Len(post_calls) = 3
  /\ \A i \in 1..3 : post_calls[i].outcome # "2xx"

\* The remote-sink entry of the reading fetched in tick t.
EntryOfTick(t) ==
  [ dateString |-> isoformat(FetchedAt(t)[1].datetime),
    sgv |-> FetchedAt(t)[1].value,
    direction |-> FetchedAt(t)[1].trend_arrow,
    type |-> "sgv" ]

\* The positions k of the log file whose row is the is_new = true record of
\* the reading fetched in tick t.
LogRowsOfTick(t) ==
  { k \in 1..Len(csv_file.rows) :
      /\ csv_file.rows[k][1] = isoformat(t)
      /\ csv_file.rows[k][2] = "True"
      /\ csv_file.rows[k][3] = ToString(FetchedAt(t)[1].value)
      /\ csv_file.rows[k][4] = isoformat(FetchedAt(t)[1].datetime) }

\* The POSTs that carried the reading fetched in tick t.
PostsOfTick(t) ==
  { i \in 1..Len(post_calls) : post_calls[i].json = << EntryOfTick(t) >> }

\* Both settings of the remote sink are present.
SinkIsConfigured == NIGHTSCOUT_URL # None /\ NIGHTSCOUT_API_SECRET # None

\* C11 as claimed: delivery is at-least-once to both sinks.  The program
\* keeps no pending delivery once a tick is over, so "eventually delivered"
\* is read at the end of each tick: every accepted reading is in the log
\* and, when the sink is configured, a POST carrying it has succeeded.
C11_AtLeastOnceToBothSinks ==
  TickRecorded =>
    \A t \in 1..ticks :
      AcceptedAt(t) =>
        /\ LogRowsOfTick(t) # {}
        /\ SinkIsConfigured =>
             \E i \in PostsOfTick(t) : post_calls[i].outcome = "2xx"

\* C11 amended: every reading accepted in a tick that has recorded is in the
\* log exactly once; for the remote sink exactly one POST carrying it is
\* ever made when the sink is configured, in the accepting tick, and none
\* when it is not: a reading whose one POST failed is never delivered.
C11_LoggedOnceOneRemoteAttempt ==
  TickRecorded =>
    \A t \in 1..ticks :
      AcceptedAt(t) =>
        /\ Cardinality(LogRowsOfTick(t)) = 1
        /\ Cardinality(PostsOfTick(t)) = IF SinkIsConfigured THEN 1 ELSE 0
        /\ \A i \in PostsOfTick(t) : post_calls[i].tick = t

\* C11 witness: the first tick's reading was accepted, its POST failed, and
\* two more ticks have passed without another POST.
C11_Witness_FailedPostNeverRepeated ==
  /\ pc = "loop"
  /\ ticks = 3
  /\ AcceptedAt(1)
  /\ Len(post_calls) = 1
  /\ post_calls[1].outcome = "transport_error"

\* C12: in a tick whose fetch returned nothing, the branch taken is the
\* "could not retrieve" one (the comparison with the last known timestamp
\* is not made), the Forwarder is not called and no POST is made, the row
\* handed to write_to_csv is (check_time, False, None, None, None, None),
\* the row in the log has four empty fields, and the last known timestamp
\* keeps the value the tick started with.
C12_FetchFailureTick ==
  \A t \in 1..ticks :
    (FetchedAt(t) = None /\ (t < ticks \/ pc # "decide")) =>
      LET notices == CallsIn(log_calls, t)
          w == CallsIn(write_calls, t)
      IN  /\ CallsIn(upload_calls, t) = << >>
          /\ CallsIn(post_calls, t) = << >>
          /\ \E i \in 1..Len(notices) :
               /\ notices[i].level = "warning"
               /\ notices[i].what = "could not retrieve glucose reading"
          /\ \A i \in 1..Len(notices) :
               notices[i].what \notin {"new reading", "no new reading"}
          /\ Len(w) = IF t < ticks \/ pc \in {"sleep", "loop", "crashed"}
                      THEN 1 ELSE 0
          /\ \A i \in 1..Len(w) :
               w[i].data_row = << isoformat(t), FALSE, None, None, None, None >>
          /\ (t < ticks \/ pc \in {"sleep", "loop"}) =>
               DataRows[t] = << isoformat(t), "False", "", "", "", "" >>
          /\ t = ticks =>
               last_known_glucose_timestamp = last_known_at_tick_start

\* C12 witness: after an accepted reading, a tick whose fetch returned
\* nothing has recorded.
C12_Witness_FailedFetchAfterAcceptance ==
  /\ pc = "sleep"
  /\ ticks = 2
  /\ AcceptedAt(1)
  /\ FetchedAt(2) = None
  /\ last_known_glucose_timestamp # None

\* initialize_dexcom_client has reported a failure.
InitFailureLogged ==
  \E i \in 1..Len(log_calls) :
    log_calls[i].what \in {"credentials must be set", "error initializing client"}

\* C13: if initialization fails (a credential is missing, or constructing
\* the client raises), main() never enters the loop: no fetch, no call of
\* write_to_csv and no data row, no forward, no POST and no sleep occur, and
\* the process has ended with exit code 1 right after reporting the failure;
\* the loop runs only with a client.
C13_InitFailureNeverEntersLoop ==
  /\ ( \/ InitFailureLogged
       \/ /\ DEXCOM_USERNAME = None \/ DEXCOM_PASSWORD = None
          /\ pc \notin {"start", "init", "crashed"} )
     => /\ pc = "exited"
        /\ exit_code = Some(1)
        /\ ticks = 0
        /\ fetch_calls = << >>
        /\ write_calls = << >>
        /\ upload_calls = << >>
        /\ post_calls = << >>
        /\ sleep_calls = << >>
        /\ DataRows = << >>
        /\ log_calls[Len(log_calls)] =
             [ tick |-> 0, level |-> "error",
               what |-> "exiting: initialization failure" ]
  /\ pc = "exited" <=> exit_code = Some(1)
  /\ pc \in {"loop", "decide", "forward", "record", "sleep"} =>
       dexcom_client # None

\* C13 witness: both credentials are set, constructing the client raised,
\* and the process has exited.
C13_Witness_ConstructorRaisedExited ==
  /\ pc = "exited"
  /\ DEXCOM_USERNAME # None
  /\ DEXCOM_PASSWORD # None
  /\ \E i \in 1..Len(log_calls) : log_calls[i].what = "error initializing client"

\* C14: when the sink's URL or its credential is absent, upload_to_nightscout
\* makes no POST and returns to main(); the accepting tick still makes its
\* one Forwarder call, writes its is_new = true row with the reading's
\* fields, and sets the last known timestamp to the reading's, as a tick
\* does when the sink is configured.
C14_UnconfiguredSinkSkipsPost ==
  (NIGHTSCOUT_URL = None \/ NIGHTSCOUT_API_SECRET = None) =>
    /\ post_calls = << >>
    /\ \A i \in 1..Len(log_calls) :
         log_calls[i].what \notin {"uploading", "uploaded", "error uploading"}
    /\ \A t \in 1..ticks :
         (AcceptedAt(t) /\ (t < ticks \/ pc # "forward")) =>
           /\ Len(CallsIn(upload_calls, t)) = 1
           /\ t = ticks => pc \in {"record", "sleep", "loop", "crashed"}
    /\ ( /\ TickRecorded
         /\ current_bg # None
         /\ \/ last_known_at_tick_start = None
            \/ current_bg[1].datetime > last_known_at_tick_start[1] )
       => /\ csv_file.rows[Len(csv_file.rows)] =
               << isoformat(check_timestamp_utc), "True",
                  ToString(current_bg[1].value),
                  isoformat(current_bg[1].datetime),
                  current_bg[1].trend_description,
                  current_bg[1].trend_arrow >>
          /\ last_known_glucose_timestamp = Some(current_bg[1].datetime)

\* C14 witness: the URL is set and the credential is absent; a tick has
\* accepted a reading, made its Forwarder call and recorded.
C14_Witness_CredentialAbsentAccepted ==
  /\ pc = "sleep"
  /\ NIGHTSCOUT_URL # None
  /\ NIGHTSCOUT_API_SECRET = None
  /\ new_reading_received
  /\ Len(upload_calls) = 1

\* The positions of the log file that hold a header row.
HeaderPositions == { k \in 1..Len(csv_file.rows) : csv_file.rows[k] = CSV_HEADERS }

\* C15: on a log file that did not exist when the process began, the file
\* never holds more than one header row and a header row is its first row;
\* while no file operation has failed, an existing file holds exactly one.
\* A successful write_to_csv call that finds the file absent appends the
\* header and then its data row, and one that finds it present appends only
\* its data row.
C15_HeaderWrittenOnceAndFirst ==
  /\ [] ( ~csv_file_at_start.exists =>
            /\ Cardinality(HeaderPositions) <= 1
            /\ csv_file.rows # << >> => csv_file.rows[1] = CSV_HEADERS
            /\ (csv_file.exists /\ pc # "crashed") =>
                 Cardinality(HeaderPositions) = 1 )
  /\ [][ (pc = "record" /\ pc' = "sleep") =>
           csv_file'.rows =
             csv_file.rows
             \o (IF csv_file.exists THEN << >> ELSE << CSV_HEADERS >>)
             \o << CsvRow(write_calls'[Len(write_calls')].data_row) >> ]_vars

\* C15 witness: the file did not exist at first; it now holds the header
\* and the data rows of two ticks.
C15_Witness_HeaderThenTwoRows ==
  /\ ~csv_file_at_start.exists
  /\ pc = "sleep"
  /\ ticks = 2
  /\ Len(csv_file.rows) = 3
  /\ csv_file.rows[1] = CSV_HEADERS

\* C16: the log is append-only: in every step (the start-up header step and
\* every write_to_csv call, failed ones included) the rows the file held
\* are an unchanged prefix of the rows it holds afterwards, and an existing
\* file stays in existence.
C16_LogIsAppendOnly ==
  [][ /\ Len(csv_file.rows) <= Len(csv_file'.rows)
      /\ SubSeq(csv_file'.rows, 1, Len(csv_file.rows)) = csv_file.rows
      /\ csv_file.exists => csv_file'.exists ]_vars

\* C16 witness: a log that existed with its header when the process began
\* has received the rows of three ticks.
C16_Witness_ExistingLogGrew ==
  /\ csv_file_at_start.exists
  /\ pc = "sleep"
  /\ Len(csv_file.rows) = 4

\* C17: in every row main() hands to write_to_csv, the four reading fields
\* are all present when is_new is true, and are then the value, the
\* rendered timestamp, the trend description and the trend arrow of the
\* reading fetched in that tick, and all None when is_new is false; in the
\* file, a True row has four non-empty fields and a False row four empty
\* ones.
C17_ReadingFieldsPresentIffNew ==
  /\ \A i \in 1..Len(write_calls) :
       LET r == write_calls[i].data_row
           t == write_calls[i].tick
       IN  /\ r[1] = isoformat(t)
           /\ IF r[2]
              THEN /\ FetchedAt(t) # None
                   /\ r[3] = Some(FetchedAt(t)[1].value)
                   /\ r[4] = Some(isoformat(FetchedAt(t)[1].datetime))
                   /\ r[5] = Some(FetchedAt(t)[1].trend_description)
                   /\ r[6] = Some(FetchedAt(t)[1].trend_arrow)
              ELSE \A k \in 3..6 : r[k] = None
  /\ \A n \in 1..Len(DataRows) :
       /\ DataRows[n][2] \in {"True", "False"}
       /\ \A k \in 3..6 : (DataRows[n][k] # "") <=> (DataRows[n][2] = "True")

\* C17 witness: a tick that accepted and a tick that fetched a reading and
\* rejected it have both been handed to write_to_csv.
C17_Witness_TrueRowAndFalseRow ==
  /\ pc = "sleep"
  /\ ticks = 2
  /\ write_calls[1].data_row[2]
  /\ ~write_calls[2].data_row[2]
  /\ FetchedAt(2) # None

\* C18: after a successful initialization the loop has no terminal state:
\* whatever a tick's fetch, decision, forward or record step gave, a next
\* step of the loop is possible (within the ticks explored), so that under
\* fairness every tick is followed by another.
C18_LoopHasNoTerminalState ==
  (dexcom_client # None /\ ticks < MaxTicks) => ENABLED Next

\* C19: when the sink is configured, every call of upload_to_nightscout
\* makes exactly one POST, of a one-element batch holding the entry built
\* from the call's arguments; a tick makes at most one POST, and no entry is
\* POSTed twice, in the same tick or in a later one, whether or not its
\* POST failed.
C19_OnePostPerInvocation ==
  SinkIsConfigured =>
    /\ \A t \in 1..ticks :
         LET u == CallsIn(upload_calls, t)
             p == CallsIn(post_calls, t)
         IN  /\ Len(p) = Len(u)
             /\ Len(p) <= 1
             /\ \A i \in 1..Len(p) :
                  /\ Len(p[i].json) = 1
                  /\ p[i].json[1] =
                       [ dateString |-> isoformat(u[i].timestamp_utc),
                         sgv |-> u[i].value,
                         direction |-> u[i].trend_arrow,
                         type |-> "sgv" ]
    /\ \A i, j \in 1..Len(post_calls) :
         i # j => post_calls[i].json # post_calls[j].json

\* C19 witness: the first tick's POST failed, the second tick's succeeded,
\* and the third tick fetched the first tick's timestamp again without a
\* POST.
C19_Witness_FailedEntryFetchedAgain ==
  /\ pc = "loop"
  /\ ticks = 3
  /\ Len(post_calls) = 2
  /\ post_calls[1].tick = 1
  /\ post_calls[1].outcome = "bad_status"
  /\ post_calls[2].outcome = "2xx"
  /\ FetchedAt(3) # None
  /\ FetchedAt(3)[1].datetime = FetchedAt(1)[1].datetime

\* C20: within a tick that accepts a reading the order is decide, record,
\* forward: whenever the Forwarder has been called for a tick, the last
\* known timestamp is set and the tick's record is already in the log.
C20_RecordedBeforeForwarded ==
  \A i \in 1..Len(upload_calls) :
    LET t == upload_calls[i].tick
    IN  /\ last_known_glucose_timestamp # None
        /\ Len(CallsIn(write_calls, t)) = 1
        /\ LogRowsOfTick(t) # {}

\* C21: every tick ends with exactly one sleep of POLLING_INTERVAL_SECONDS,
\* taken after the record step and whatever the tick gave: a tick that is
\* over (a later tick has begun, or the process is back at the top of the
\* loop or has ended) has made its one call of write_to_csv and then its
\* one call of time.sleep with the configured interval, and a tick followed
\* by another fetch has appended exactly one row in between.
C21_EveryTickEndsWithOneSleep ==
  /\ \A i \in 1..Len(sleep_calls) :
       /\ sleep_calls[i].seconds = POLLING_INTERVAL_SECONDS
       /\ Len(CallsIn(write_calls, sleep_calls[i].tick)) = 1
  /\ \A t \in 1..ticks :
       (t < ticks \/ pc \in {"loop", "crashed", "exited"}) =>
         /\ Len(CallsIn(write_calls, t)) = 1
         /\ Len(CallsIn(sleep_calls, t)) = 1
  /\ \A t \in 1..(ticks - 1) :
       Len(SelectSeq(DataRows, LAMBDA r : r[1] = isoformat(t))) = 1

\* The messages logged during tick t, in order.
LoggedIn(t) ==
  LET l == CallsIn(log_calls, t)
  IN  [ i \in 1..Len(l) |-> << l[i].level, l[i].what >> ]

\* C22: each tick makes exactly one fetch attempt: one call of
\* get_latest_glucose_reading, which makes one call to the source, never a
\* second one after a failure.  A fetch that failed (the source raised, which
\* is logged as an error, or returned nothing) gave None to main() without
\* raising: the tick went on to its "could not retrieve" branch and to its
\* one call of write_to_csv, and the process never ends in a fetch.
C22_OneFetchAttemptPerTick ==
  /\ Len(fetch_calls) = ticks
  /\ \A t \in 1..ticks :
       /\ fetch_calls[t].tick = t
       /\ fetch_calls[t].source_calls = 1
       /\ fetch_calls[t].result = None =>
            /\ (t < ticks \/ pc # "decide") =>
                 /\ LoggedIn(t) \in
                      { << <<"warning", "could not retrieve glucose reading">> >>,
                        << <<"error", "error fetching glucose reading">>,
                           <<"warning", "could not retrieve glucose reading">> >> }
                 /\ ~AcceptedAt(t)
            /\ (t < ticks \/ pc \in {"sleep", "loop", "crashed"}) =>
                 Len(CallsIn(write_calls, t)) = 1
  /\ pc = "crashed" /\ ticks >= 1 =>
       /\ write_calls # << >>
       /\ write_calls[Len(write_calls)].tick = ticks
       /\ write_calls[Len(write_calls)].outcome # "ok"

\* C22 witness: the source raised in the first tick and returned nothing in
\* the second; both ticks were recorded and a third tick fetched a reading.
C22_Witness_RaisedThenNothingThenReading ==
  /\ ticks = 3
  /\ pc = "decide"
  /\ FetchedAt(1) = None
  /\ LoggedIn(1)[1] = <<"error", "error fetching glucose reading">>
  /\ FetchedAt(2) = None
  /\ Len(LoggedIn(2)) = 1
  /\ FetchedAt(3) # None
  /\ Len(DataRows) = 2

\* C23: initialize_dexcom_client calls exit(1) exactly when a source
\* credential is missing, and then returns no client without constructing
\* the source client; with both credentials it never calls exit, whether
\* the constructor succeeds or raises (it then returns no client).  Stated
\* of the call main() has made: its result is the one the state shows (the
\* client returned and the messages logged before the loop).
C23_InitializeExitsIffCredentialMissing ==
  \A ctor \in {"ok", "raise"} :
    LET r == initialize_dexcom_client(DEXCOM_USERNAME, DEXCOM_PASSWORD, ctor)
        missing == DEXCOM_USERNAME = None \/ DEXCOM_PASSWORD = None
    IN  ( /\ pc \notin {"start", "init"}
          /\ Len(LoggedIn(0)) >= Len(r.logged)
          /\ SubSeq(LoggedIn(0), 1, Len(r.logged)) = r.logged
          /\ dexcom_client = r.client )
        => /\ (r.exit_calls = << 1 >>) <=> missing
           /\ missing => r.client = None /\ r.ctor_calls = 0
           /\ ~missing => /\ r.exit_calls = << >>
                          /\ r.ctor_calls = 1
                          /\ (ctor = "raise") => r.client = None

\* The positions of the is_new = true records among the data rows of the
\* log file.
NewRecordPositions == { n \in 1..Len(DataRows) : DataRows[n][2] = "True" }

\* C24: in the log of a run that began with no last known timestamp, the
\* reading timestamps of the is_new = true records are strictly increasing
\* in file order (each is the rendering of an instant, and the instant of an
\* earlier record is before that of a later one), so no reading timestamp
\* stands in two is_new = true records.
C24_NewRecordTimestampsIncrease ==
  /\ \A n \in NewRecordPositions :
       \E a \in Times : DataRows[n][4] = isoformat(a)
  /\ \A m, n \in NewRecordPositions :
       m < n =>
         /\ DataRows[m][4] # DataRows[n][4]
         /\ \E a, b \in Times :
              /\ a < b
              /\ DataRows[m][4] = isoformat(a)
              /\ DataRows[n][4] = isoformat(b)

\* C24 witness: the log holds two is_new = true records with a rejected
\* repeat of the first one's reading between them.
C24_Witness_TrueFalseTrueRows ==
  /\ pc = "sleep"
  /\ ticks = 3
  /\ NewRecordPositions = {1, 3}
  /\ FetchedAt(2) # None
  /\ FetchedAt(2)[1].datetime = FetchedAt(1)[1].datetime

\* C25: at every tick boundary (the record step done, the process sleeping
\* or about to fetch again) of a run that began with no last known timestamp
\* and a log without records, last_known_glucose_timestamp is None exactly
\* when the log holds no is_new = true record, and otherwise the log's last
\* is_new = true record carries its rendering as reading timestamp.
C25_LastKnownIsLastNewRecord ==
  (pc \in {"sleep", "loop"}) =>
    IF NewRecordPositions = {}
    THEN last_known_glucose_timestamp = None
    ELSE LET last == CHOOSE n \in NewRecordPositions :
                       \A m \in NewRecordPositions : m <= n
         IN  /\ last_known_glucose_timestamp # None
             /\ DataRows[last][4] = isoformat(last_known_glucose_timestamp[1])

\* C25 witness: the first tick accepted, the second fetched nothing and the
\* third fetched an earlier reading; the last known timestamp is still the
\* first record's.
C25_Witness_HeldOverFailedAndRejectedTicks ==
  /\ pc = "sleep"
  /\ ticks = 3
  /\ NewRecordPositions = {1}
  /\ FetchedAt(2) = None
  /\ FetchedAt(3) # None
  /\ FetchedAt(3)[1].datetime < FetchedAt(1)[1].datetime
  /\ DataRows[1][4] = isoformat(last_known_glucose_timestamp[1])

====
